---- MODULE Spec2Model ----
(***************************************************************************)
(* A model of ustriage (canonical/ubuntu-server-triage): the date range    *)
(* resolver, the bug delta computation and the report renderer.            *)
(*                                                                         *)
(* Dates are proleptic Gregorian ordinals counted from 2018-01-01 (day 0,  *)
(* a Monday), so that weekday() is the ordinal modulo 7, as Python's       *)
(* date.weekday() (Monday = 0 ... Sunday = 6).  A '%Y-%m-%d' string is the *)
(* triple of its fields; strftime and strptime convert between ordinals    *)
(* and triples by calendar arithmetic.                                     *)
(***************************************************************************)
EXTENDS Integers, Sequences, FiniteSets, TLC

VARIABLES
    dcall,      \* the last call into the date range resolver, with its result
    remote,     \* the bug tracker: the last-updated time of every task
    cbl,        \* the running create_bug_list call
    pcall,      \* the last print_bugs call, with everything it emitted
    tcall       \* the last call of a function of one task, with its result

vars == <<dcall, remote, cbl, pcall, tcall>>

(***************************************************************************)
(* Bounds of the model.                                                    *)
(***************************************************************************)
\* first and last ordinal drawn for "today" and for the dates of a range:
\* 2019-01-01 .. 2021-12-31 (2020 is a leap year)
FirstDay == 365
LastDay == 1460

Days == FirstDay..LastDay

(***************************************************************************)
(* datetime: calendar arithmetic.                                          *)
(***************************************************************************)
IsLeap(y) == (y % 4 = 0) /\ ((y % 100 # 0) \/ (y % 400 = 0))

DaysInYear(y) == IF IsLeap(y) THEN 366 ELSE 365

DaysInMonth(y, m) ==
    IF m = 2 THEN (IF IsLeap(y) THEN 29 ELSE 28)
    ELSE IF m \in {4, 6, 9, 11} THEN 30 ELSE 31

RECURSIVE DaysBeforeYear(_)
DaysBeforeYear(y) == IF y <= 2018 THEN 0 ELSE DaysBeforeYear(y - 1) + DaysInYear(y - 1)

RECURSIVE DaysBeforeMonth(_, _)
DaysBeforeMonth(y, m) == IF m <= 1 THEN 0 ELSE DaysBeforeMonth(y, m - 1) + DaysInMonth(y, m - 1)

Years == 2018..2023

\* a triple that names a day of the calendar (what strptime accepts)
ValidYmd(t) ==
    /\ t[1] \in Years
    /\ t[2] \in 1..12
    /\ t[3] \in 1..DaysInMonth(t[1], t[2])

\* date(y, m, d).toordinal(), from 2018-01-01
Ymd2Ord(t) == DaysBeforeYear(t[1]) + DaysBeforeMonth(t[1], t[2]) + (t[3] - 1)

\* date.fromordinal(n), as its (year, month, day)
Ord2Ymd(n) ==
    LET y == CHOOSE yy \in Years : DaysBeforeYear(yy) <= n /\ n < DaysBeforeYear(yy + 1)
        r == n - DaysBeforeYear(y)
        m == CHOOSE mm \in 1..12 :
                 DaysBeforeMonth(y, mm) <= r /\ r < DaysBeforeMonth(y, mm) + DaysInMonth(y, mm)
    IN <<y, m, r - DaysBeforeMonth(y, m) + 1>>

\* date.weekday(): Monday is 0, Sunday is 6
weekday(n) == n % 7

(***************************************************************************)
(* Date strings.  A string the user or the program gives for a date is one *)
(* of: nothing (None or ''), an ISO string 'YYYY-MM-DD' (kind "iso", which *)
(* may be shaped like a date without naming one, as '2019-02-30'), the     *)
(* same fields without zero padding as '2019-5-1' (kind "loose"), the name *)
(* of a day of the week (kind "kw") or text none of these (kind "junk").   *)
(***************************************************************************)
NoneStr == [kind |-> "none", ymd |-> <<0, 0, 0>>, wd |-> 0]
Iso(t) == [kind |-> "iso", ymd |-> t, wd |-> 0]
Loose(t) == [kind |-> "loose", ymd |-> t, wd |-> 0]
Kw(w) == [kind |-> "kw", ymd |-> <<0, 0, 0>>, wd |-> w]
Junk == [kind |-> "junk", ymd |-> <<0, 0, 0>>, wd |-> 0]

\* bool(s) of a string or None
truthy(s) == s.kind # "none"

\* re.fullmatch(r'\d{4}-\d{2}-\d{2}', s)
fullmatch_iso(s) == s.kind = "iso"

\* d.strftime('%Y-%m-%d')
strftime(n) == Iso(Ord2Ymd(n))

\* datetime.strptime(s, '%Y-%m-%d') succeeds: the fields, zero padded or
\* not, name a day of the calendar
strptime_ok(s) == s.kind \in {"iso", "loose"} /\ ValidYmd(s.ymd)

strptime(s) == Ymd2Ord(s.ymd)

\* d + timedelta(days=k)
timedelta_days(n, k) == n + k

(***************************************************************************)
(* dateutil.                                                               *)
(***************************************************************************)
\* dateutil.parser.parse(keyword, ignoretz=True).weekday(): the name of a
\* day gives that day; any other text dateutil reads as a date gives that
\* date's weekday; anything else raises ValueError
parser_parse_weekday(keyword) ==
    IF keyword.kind = "kw" THEN [exc |-> "none", wd |-> keyword.wd]
    ELSE IF strptime_ok(keyword) THEN [exc |-> "none", wd |-> weekday(strptime(keyword))]
    ELSE [exc |-> "ValueError", wd |-> 0]

\* a faulty variant: the last day strictly before d that falls on weekday w
relativedelta_weekday_before(d, w) == d - 1 - ((weekday(d) + 6 - w) % 7)

\* d + relativedelta(weekday=weekday(w, -1)): the last day on or before d
\* that falls on weekday w
relativedelta_weekday_last(d, w) == d - ((weekday(d) + 7 - w) % 7)

(***************************************************************************)
(* auto_date_range(keyword, today)                                         *)
(***************************************************************************)
\* a faulty variant: only Sunday is refused
weekend_weekdays_sunday == {6}

\* the weekdays for which no triage range is specified
weekend_weekdays == {5, 6}

auto_date_range(keyword, today) ==
    LET parsed == parser_parse_weekday(keyword)
        requested_weekday == parsed.wd
        last_occurrence == relativedelta_weekday_last(today, requested_weekday)
        failed == [exc |-> "ValueError", start |-> 0, end |-> 0]
    IN IF parsed.exc # "none" THEN failed
       ELSE IF requested_weekday \in weekend_weekdays THEN failed
       ELSE IF weekday(last_occurrence) # 0
            THEN [exc |-> "none",
                  start |-> timedelta_days(last_occurrence, -1),
                  end |-> timedelta_days(last_occurrence, -1)]
            ELSE [exc |-> "none",
                  start |-> relativedelta_weekday_last(last_occurrence, 4),
                  end |-> relativedelta_weekday_last(last_occurrence, 6)]

(***************************************************************************)
(* reverse_auto_date_range(start, end): a label, or "None"                 *)
(***************************************************************************)
day_names == <<"Tuesday", "Wednesday", "Thursday", "Friday">>

triage_label(day) == day \o " triage"

\* a faulty variant: a range is refused when it spans more than one day
reverse_auto_date_range_span1(start, end) ==
    LET start_weekday == weekday(start)
        end_weekday == weekday(end)
    IN IF start > end THEN "None"
       ELSE IF end - start > 1 THEN "None"
       ELSE IF start_weekday = 4 /\ end_weekday = 6 THEN "Monday triage"
       ELSE IF start = end
            THEN IF start_weekday \in {4, 5, 6} THEN "None"
                 ELSE triage_label(day_names[start_weekday + 1])
            ELSE "None"

\* a faulty variant: the length of the range is not looked at
reverse_auto_date_range_anyspan(start, end) ==
    LET start_weekday == weekday(start)
        end_weekday == weekday(end)
    IN IF start > end THEN "None"
       ELSE IF start_weekday = 4 /\ end_weekday = 6 THEN "Monday triage"
       ELSE IF start = end
            THEN IF start_weekday \in {4, 5, 6} THEN "None"
                 ELSE triage_label(day_names[start_weekday + 1])
            ELSE "None"

\* a faulty variant: the day of the start names the range, whatever its end
reverse_auto_date_range_anyend(start, end) ==
    LET start_weekday == weekday(start)
        end_weekday == weekday(end)
    IN IF start > end THEN "None"
       ELSE IF end - start > 2 THEN "None"
       ELSE IF start_weekday = 4 /\ end_weekday = 6 THEN "Monday triage"
       ELSE IF start_weekday \in {4, 5, 6} THEN "None"
       ELSE triage_label(day_names[start_weekday + 1])

reverse_auto_date_range(start, end) ==
    LET start_weekday == weekday(start)
        end_weekday == weekday(end)
    IN IF start > end THEN "None"
       ELSE IF end - start > 2 THEN "None"
       ELSE IF start_weekday = 4 /\ end_weekday = 6 THEN "Monday triage"
       ELSE IF start = end
            THEN IF start_weekday \in {4, 5, 6} THEN "None"
                 ELSE triage_label(day_names[start_weekday + 1])
            ELSE "None"

(***************************************************************************)
(* parse_dates(start, end), with the clock's date `now`                    *)
(***************************************************************************)
\* a faulty variant: the end is not widened
widen_days_none == 1 - 1

\* the one day by which the end is widened
widen_days == 1

parse_dates(start, end, now) ==
    LET yesterday == timedelta_days(now, -1)
        sunday == weekday(yesterday) = 6
        \* lines 243-252: no start given
        start1 == IF truthy(start) THEN start
                  ELSE IF ~sunday THEN strftime(yesterday)
                  ELSE strftime(timedelta_days(yesterday, -2))
        end1 == IF ~truthy(start) /\ sunday THEN strftime(yesterday) ELSE end
        failed == [exc |-> "ValueError", start |-> NoneStr, end |-> NoneStr]
        \* lines 271-275: the end is parsed, widened and formatted again
        widen(s, e) == IF ~strptime_ok(e) THEN failed
                       ELSE [exc |-> "none", start |-> s,
                             end |-> strftime(timedelta_days(strptime(e), widen_days))]
    IN IF fullmatch_iso(start1)
       THEN widen(start1, IF ~truthy(end1) THEN start1 ELSE end1)
       ELSE IF truthy(start1) /\ ~truthy(end1)
            THEN LET r == auto_date_range(start1, now)
                 IN IF r.exc # "none" THEN failed
                    ELSE widen(strftime(r.start), strftime(r.end))
            ELSE failed

(***************************************************************************)
(* main, lines 724-749: the range is parsed, shown as inclusive and named  *)
(***************************************************************************)
main_date_range(start, end, now) ==
    LET parsed == parse_dates(start, end, now)
        failed == [exc |-> "ValueError", parsed |-> parsed, inclusive_start |-> 0,
                   inclusive_end |-> 0, triage_day_name |-> "None"]
    IN IF parsed.exc # "none" THEN failed
       ELSE IF ~strptime_ok(parsed.start) THEN failed
       ELSE LET inclusive_start == strptime(parsed.start)
                inclusive_end == timedelta_days(strptime(parsed.end), -1)
            IN [exc |-> "none", parsed |-> parsed,
                inclusive_start |-> inclusive_start,
                inclusive_end |-> inclusive_end,
                triage_day_name |-> reverse_auto_date_range(inclusive_start, inclusive_end)]

(***************************************************************************)
(* The calls into the date range resolver.                                 *)
(***************************************************************************)
\* the longest span, in days, of a range handed to reverse_auto_date_range
MaxSpan == 3

\* texts that are no ISO string and no name of a day, and that dateutil
\* still reads as a date: '2019-5-1' (a Wednesday), '2020-3-7' (a Saturday)
LooseDates == {<<2019, 5, 1>>, <<2020, 3, 7>>}

\* an ISO-shaped string that names no day: '2019-02-30'
BadIso == Iso(<<2019, 2, 30>>)

Keywords == {Kw(w) : w \in 0..6} \cup {Loose(t) : t \in LooseDates} \cup {Junk, BadIso}

\* the (start, end) arguments tried on a day `now`
ParseInputs(now) ==
    LET near == {strftime(timedelta_days(now, k)) : k \in -1..MaxSpan}
        loose == {Loose(t) : t \in LooseDates}
    IN     ({NoneStr} \X ({NoneStr, Junk} \cup near))
      \cup ({strftime(now)} \X ({NoneStr, Junk, BadIso} \cup near \cup loose))
      \cup ({BadIso} \X {NoneStr, strftime(now)})
      \cup (Keywords \X {NoneStr, strftime(now)})

NoCall == [op |-> "none"]

\* the resolver is idle on the day `today`: the date the clock shows, and
\* the day the dates of the next call are taken from
Idle(today) == [op |-> "idle", today |-> today]

AutoDateRange ==
    /\ dcall.op = "idle"
    /\ \E keyword \in Keywords :
          dcall' = [op |-> "auto_date_range", keyword |-> keyword, today |-> dcall.today,
                    r |-> auto_date_range(keyword, dcall.today)]
    /\ UNCHANGED <<remote, cbl, pcall, tcall>>

\* the lengths of the ranges tried, in days from start to end: short
\* ranges in either direction, and ranges of a week or two more than a
\* weekend, which end on the weekday a weekend ends on
Spans == (-(MaxSpan + 2)..MaxSpan) \cup {7 + 2, 14 + 2}

ReverseAutoDateRange ==
    /\ dcall.op = "idle"
    /\ \E span \in Spans :
          dcall' = [op |-> "reverse_auto_date_range", start |-> dcall.today,
                    end |-> dcall.today + span,
                    label |-> reverse_auto_date_range(dcall.today, dcall.today + span)]
    /\ UNCHANGED <<remote, cbl, pcall, tcall>>

\* reverse_auto_date_range on the range auto_date_range has just returned
ReverseOfAutoDateRange ==
    /\ dcall.op = "auto_date_range"
    /\ dcall.r.exc = "none"
    /\ dcall' = [op |-> "reverse_of_auto", keyword |-> dcall.keyword,
                 today |-> dcall.today, start |-> dcall.r.start, end |-> dcall.r.end,
                 label |-> reverse_auto_date_range(dcall.r.start, dcall.r.end)]
    /\ UNCHANGED <<remote, cbl, pcall, tcall>>

ParseDates ==
    /\ dcall.op = "idle"
    /\ \E arg \in ParseInputs(dcall.today) :
          dcall' = [op |-> "parse_dates", start |-> arg[1], end |-> arg[2],
                    now |-> dcall.today,
                    r |-> parse_dates(arg[1], arg[2], dcall.today)]
    /\ UNCHANGED <<remote, cbl, pcall, tcall>>

MainDateRange ==
    /\ dcall.op = "idle"
    /\ \E arg \in ParseInputs(dcall.today) :
          dcall' = [op |-> "main", start |-> arg[1], end |-> arg[2],
                    now |-> dcall.today,
                    r |-> main_date_range(arg[1], arg[2], dcall.today)]
    /\ UNCHANGED <<remote, cbl, pcall, tcall>>

InitDates ==
    /\ dcall \in {Idle(today) : today \in Days}
    /\ remote = <<>>
    /\ cbl = <<>>
    /\ pcall = NoCall
    /\ tcall = NoCall

NextDates ==
    \/ AutoDateRange
    \/ ReverseAutoDateRange
    \/ ReverseOfAutoDateRange
    \/ ParseDates
    \/ MainDateRange

SpecDates == InitDates /\ [][NextDates]_vars

(***************************************************************************)
(* The bug tracker (Launchpad), as create_bug_list reads it.  Time is a    *)
(* day number; a bug's last-updated day, its direct subscription by the    *)
(* team and its tags are the tracker's state.  A task of a bug is targeted *)
(* to a package of the distribution ("ubuntu") or of one of its series.    *)
(***************************************************************************)
\* the last day of the tracker's history: the present
MaxTime == 2

Times == 0..MaxTime

\* no date: start_date or end_date is None, a query has no modified_since
NoDate == -1

Bugs == {1, 2}

\* distro.series_collection, in its order, with each series' `active`
series_collection ==
    <<[name |-> "s1", active |-> TRUE],
      [name |-> "s2", active |-> FALSE],
      [name |-> "s3", active |-> TRUE]>>

bug_task(bug, pkg, target) == [bug |-> bug, pkg |-> pkg, target |-> target]

\* the bug tasks that exist; a task's self_link is the task itself
AllTasks ==
    {bug_task(1, "a", "ubuntu"), bug_task(1, "a", "s1"), bug_task(1, "a", "s2"),
     bug_task(2, "a", "s1"), bug_task(2, "a", "s3"), bug_task(2, "b", "ubuntu")}

\* the packages the team is a structural subscriber of
structural_subscriptions == {"a"}

\* DEFAULTTAG, the default of --tag
DEFAULTTAG == "server-todo"

\* the tags a bug may carry
BugTags == {"needs-merge", DEFAULTTAG}

\* the tag a query tag "-tag" excludes; "" for a tag that is required
excluded_tag(tag) ==
    CASE tag = "-needs-merge" -> "needs-merge"
      [] tag = "-server-todo" -> "server-todo"
      [] tag = "-bot-stop-nagging" -> "bot-stop-nagging"
      [] OTHER -> ""

\* one tag of a query: a bug must carry it, or ("-tag") must not
tag_matches(tag, bugtags) ==
    IF excluded_tag(tag) # "" THEN excluded_tag(tag) \notin bugtags
    ELSE tag \in bugtags

\* a search without any filter
NoQuery == [modified_since |-> NoDate, bug_subscriber |-> FALSE,
            structural_subscriber |-> FALSE, tags |-> {}]

\* target.searchTasks(**query): the tasks of the target that match
searchTasks(rem, target, query) ==
    {t \in AllTasks :
        /\ t.target = target
        /\ query.modified_since # NoDate => rem.modified[t.bug] >= query.modified_since
        /\ query.bug_subscriber => rem.bugsub[t.bug]
        /\ query.structural_subscriber => t.pkg \in structural_subscriptions
        /\ \A tag \in query.tags : tag_matches(tag, rem.tags[t.bug])}

\* fast_target_name(task): the last part of the task's target_link
fast_target_name(t) == t.pkg

\* the key of `result` in searchTasks_in_all_active_series
result_key(t) == <<t.bug, fast_target_name(t)>>

\* a faulty variant: the tasks are added, whatever their key
dict_update_keep_all(result, new) == result \cup new

\* result.update(new): a task of `new` replaces the one under its key
dict_update(result, new) ==
    {t \in result : \A n \in new : result_key(n) # result_key(t)} \cup new

RECURSIVE union_of_series(_, _, _, _)
union_of_series(rem, query, result, i) ==
    IF i > Len(series_collection) THEN result
    ELSE IF ~series_collection[i].active
         THEN union_of_series(rem, query, result, i + 1)
         ELSE union_of_series(rem, query,
                  dict_update(result, searchTasks(rem, series_collection[i].name, query)),
                  i + 1)

\* searchTasks_in_all_active_series(distro, **query): result.values()
searchTasks_in_all_active_series(rem, query) ==
    union_of_series(rem, query, searchTasks(rem, "ubuntu", query), 1)

(***************************************************************************)
(* create_bug_list(start_date, end_date, lpname, bugsubscriber,            *)
(* activitysubscribers, tags), called with no activity subscribers, so     *)
(* that last_activity_ours is False for every task (line 427).  Each       *)
(* search is a blocking request; the tracker may change between two of     *)
(* them.                                                                   *)
(***************************************************************************)
\* a faulty variant: nothing is subtracted from the since-start set
bugs_in_range_all(bugs_since_start, bugs_since_end) == bugs_since_start

\* a faulty variant: the since-start set is subtracted from the since-end set
bugs_in_range_swapped(bugs_since_start, bugs_since_end) ==
    {link \in bugs_since_end : link \notin bugs_since_start}

\* lines 534-537
bugs_in_range(bugs_since_start, bugs_since_end) ==
    {link \in bugs_since_start : link \notin bugs_since_end}

\* the tags main passes for the triage report, line 754
packaging_exclusion == {"-needs-merge"}

\* the search of one branch of create_bug_list
direct_query(since, tags) ==
    [modified_since |-> since, bug_subscriber |-> TRUE,
     structural_subscriber |-> FALSE, tags |-> tags]

structural_query(since) ==
    [modified_since |-> since, bug_subscriber |-> FALSE,
     structural_subscriber |-> TRUE, tags |-> {}]

already_subscribed_query(since) ==
    [modified_since |-> since, bug_subscriber |-> TRUE,
     structural_subscriber |-> TRUE, tags |-> {}]

\* a faulty variant: every call is taken for a date-bounded one
date_bounded_always(start_date, end_date) == TRUE

\* line 482: start_date is not None and end_date is not None
date_bounded(start_date, end_date) == start_date # NoDate /\ end_date # NoDate

CblIdle == [pc |-> "idle"]

\* the arguments of one call of create_bug_list, and who makes it
cbl_args(caller, start_date, end_date, bugsubscriber, tags) ==
    [caller |-> caller, start_date |-> start_date, end_date |-> end_date,
     bugsubscriber |-> bugsubscriber, tags |-> tags]

\* print_tagged_bugs(..., expiration, date_range, ..., tags, ...): lines
\* 625-649; TEAMLPNAME, a name, is passed for bugsubscriber
print_tagged_bugs_calls(caller, with_expiration, tags) ==
    {cbl_args(caller, expire_start, expire_end, TRUE, tags \cup {"-bot-stop-nagging"}) :
        expire_start \in (IF with_expiration THEN Times ELSE {NoDate}),
        expire_end \in (IF with_expiration THEN Times ELSE {NoDate})}

\* print_subscribed_bugs(..., expiration, date_range, ...): lines 660-683
print_subscribed_bugs_calls(caller, with_expiration) ==
    {cbl_args(caller, expire_start, expire_end, TRUE,
              IF with_expiration THEN {"-bot-stop-nagging"}
              ELSE {"-bot-stop-nagging", "-server-todo"}) :
        expire_start \in (IF with_expiration THEN Times ELSE {NoDate}),
        expire_end \in (IF with_expiration THEN Times ELSE {NoDate})}

\* the calls of create_bug_list that main(tags=[args.tag], ...) makes, with
\* the value of its variable `tags` at each: the parameter up to line 753,
\* the packaging exclusions from line 754 on
main_calls(tag) ==
    LET tags == {tag}
        tags_754 == packaging_exclusion
    IN      print_tagged_bugs_calls("show_tagged", FALSE, tags)
       \cup print_subscribed_bugs_calls("show_subscribed", FALSE)
       \cup {cbl_args("triage", start_date, end_date, bugsubscriber, tags_754) :
                 start_date \in Times, end_date \in Times, bugsubscriber \in BOOLEAN}
       \cup print_tagged_bugs_calls("expire_tagged", TRUE, tags_754)
       \cup print_subscribed_bugs_calls("expire_subscribed", TRUE)

\* create_bug_list called on its own, with or without dates and tags
other_calls ==
    {cbl_args("other", start_date, end_date, bugsubscriber, tags) :
        start_date \in Times \cup {NoDate}, end_date \in Times \cup {NoDate},
        bugsubscriber \in BOOLEAN, tags \in {{}, packaging_exclusion}}

\* the call is made: nothing is fetched yet
CreateBugList ==
    /\ cbl.pc = "idle"
    /\ \E call \in main_calls(DEFAULTTAG) \cup other_calls :
          cbl' = [pc |-> IF date_bounded(call.start_date, call.end_date)
                         THEN "since_start" ELSE "all",
                  caller |-> call.caller,
                  start_date |-> call.start_date, end_date |-> call.end_date,
                  bugsubscriber |-> call.bugsubscriber, tags |-> call.tags,
                  bugs_since_start |-> {}, bugs_since_end |-> {},
                  already_sub_since_start |-> {}, bugs_in_range |-> {},
                  bugs |-> {}]
    /\ UNCHANGED <<dcall, remote, pcall, tcall>>

\* lines 485-494, 511-517
FetchSinceStart ==
    /\ cbl.pc = "since_start"
    /\ cbl' = [cbl EXCEPT
                 !.pc = "since_end",
                 !.bugs_since_start = searchTasks_in_all_active_series(remote,
                     IF cbl.bugsubscriber THEN direct_query(cbl.start_date, cbl.tags)
                     ELSE structural_query(cbl.start_date))]
    /\ UNCHANGED <<dcall, remote, pcall, tcall>>

\* lines 495-507, 518-524
FetchSinceEnd ==
    /\ cbl.pc = "since_end"
    /\ cbl' = [cbl EXCEPT
                 !.pc = IF cbl.bugsubscriber THEN "compute" ELSE "already_sub",
                 !.bugs_since_end = searchTasks_in_all_active_series(remote,
                     IF cbl.bugsubscriber THEN direct_query(cbl.end_date, cbl.tags)
                     ELSE structural_query(cbl.end_date))]
    /\ UNCHANGED <<dcall, remote, pcall, tcall>>

\* lines 525-532
FetchAlreadySub ==
    /\ cbl.pc = "already_sub"
    /\ cbl' = [cbl EXCEPT
                 !.pc = "compute",
                 !.already_sub_since_start =
                     searchTasks_in_all_active_series(remote,
                         already_subscribed_query(cbl.start_date))]
    /\ UNCHANGED <<dcall, remote, pcall, tcall>>

\* lines 538-559: no date bound, one search
FetchAll ==
    /\ cbl.pc = "all"
    /\ cbl' = [cbl EXCEPT
                 !.pc = "compute",
                 !.bugs_in_range = searchTasks_in_all_active_series(remote,
                     IF cbl.bugsubscriber THEN direct_query(NoDate, cbl.tags)
                     ELSE structural_query(NoDate))]
    /\ UNCHANGED <<dcall, remote, pcall, tcall>>

\* Task.create_from_launchpadlib_object(task, subscribed=..., last_activity_ours=...)
create_from_launchpadlib_object(obj, subscribed, last_activity_ours) ==
    [obj |-> obj, subscribed |-> subscribed, last_activity_ours |-> last_activity_ours]

\* lines 534-537 and 561-570
Compute ==
    /\ cbl.pc = "compute"
    /\ LET dated == date_bounded(cbl.start_date, cbl.end_date)
           in_range == IF dated
                       THEN bugs_in_range(cbl.bugs_since_start, cbl.bugs_since_end)
                       ELSE cbl.bugs_in_range
       IN cbl' = [cbl EXCEPT
                    !.pc = "done",
                    !.bugs_in_range = in_range,
                    !.bugs = {create_from_launchpadlib_object(
                                  link, link \in cbl.already_sub_since_start, FALSE) :
                              link \in in_range}]
    /\ UNCHANGED <<dcall, remote, pcall, tcall>>

\* somebody updates a bug while the report is being made
RemoteTouch ==
    /\ cbl.pc \notin {"idle", "done"}
    /\ \E b \in Bugs :
          /\ remote.modified[b] # MaxTime
          /\ remote' = [remote EXCEPT !.modified[b] = MaxTime]
    /\ UNCHANGED <<dcall, cbl, pcall, tcall>>

RemoteStates ==
    [modified : [Bugs -> Times], bugsub : [Bugs -> BOOLEAN],
     tags : [Bugs -> SUBSET BugTags]]

RemoteParked ==
    [modified |-> [b \in Bugs |-> 0], bugsub |-> [b \in Bugs |-> FALSE],
     tags |-> [b \in Bugs |-> {}]]

InitDelta ==
    /\ remote \in RemoteStates
    /\ cbl = CblIdle
    /\ dcall = NoCall
    /\ pcall = NoCall
    /\ tcall = NoCall

NextDelta ==
    \/ CreateBugList
    \/ FetchSinceStart
    \/ FetchSinceEnd
    \/ FetchAlreadySub
    \/ FetchAll
    \/ Compute
    \/ RemoteTouch

SpecDelta == InitDelta /\ [][NextDelta]_vars

(***************************************************************************)
(* The report renderer.  A Task is the bug number and source package read  *)
(* from its title, its status, the last_activity_ours flag and the bug's   *)
(* last-updated day.  A bug number is a string of digits and a package a   *)
(* string: both are compared as Python compares strings, character by      *)
(* character.                                                              *)
(***************************************************************************)
\* str(n): the decimal digits of a bug number
RECURSIVE digits(_)
digits(n) == IF n < 10 THEN <<n>> ELSE Append(digits(n \div 10), n % 10)

\* the characters of a package name
chars(src) ==
    CASE src = "a" -> <<97>>
      [] src = "b" -> <<98>>
      [] src = "lxd" -> <<108, 120, 100>>
      [] OTHER -> <<>>

\* a < b for two strings, or two tuples of numbers
RECURSIVE seq_less(_, _)
seq_less(a, b) ==
    IF a = <<>> THEN b # <<>>
    ELSE IF b = <<>> THEN FALSE
    ELSE IF Head(a) # Head(b) THEN Head(a) < Head(b)
    ELSE seq_less(Tail(a), Tail(b))

\* x in xs, for a list
in_list(x, xs) == \E i \in 1..Len(xs) : xs[i] = x

\* PACKAGE_BLACKLIST, lines 30-39, as far as the packages of the model go
PACKAGE_BLACKLIST == {"lxd"}

\* a faulty variant: the bug numbers are compared as numbers
sort_key_less_numeric(t1, t2) ==
    LET n1 == IF t1.last_activity_ours THEN 0 ELSE 1
        n2 == IF t2.last_activity_ours THEN 0 ELSE 1
    IN IF n1 # n2 THEN n1 < n2
       ELSE IF t1.number # t2.number THEN t1.number < t2.number
       ELSE seq_less(chars(t1.src), chars(t2.src))

\* Task.sort_key: (not last_activity_ours, number, src); k1 < k2
sort_key_less(t1, t2) ==
    LET n1 == IF t1.last_activity_ours THEN 0 ELSE 1
        n2 == IF t2.last_activity_ours THEN 0 ELSE 1
    IN IF n1 # n2 THEN n1 < n2
       ELSE IF t1.number # t2.number THEN seq_less(digits(t1.number), digits(t2.number))
       ELSE seq_less(chars(t1.src), chars(t2.src))

\* x comes strictly before y in sorted(..., key=..., reverse=oder_by_date)
sorts_before(x, y, oder_by_date) ==
    IF oder_by_date THEN y.date_last_updated < x.date_last_updated
    ELSE sort_key_less(x, y)

\* x put into the sorted list s, behind every element it does not precede
RECURSIVE insert_sorted(_, _, _)
insert_sorted(x, s, oder_by_date) ==
    IF s = <<>> THEN <<x>>
    ELSE IF sorts_before(x, Head(s), oder_by_date) THEN <<x>> \o s
    ELSE <<Head(s)>> \o insert_sorted(x, Tail(s), oder_by_date)

\* sorted(tasks, key, reverse): a stable sort
RECURSIVE sorted(_, _)
sorted(tasks, oder_by_date) ==
    IF tasks = <<>> THEN <<>>
    ELSE insert_sorted(tasks[Len(tasks)],
                       sorted(SubSeq(tasks, 1, Len(tasks) - 1), oder_by_date),
                       oder_by_date)

\* (t for t in tasks if t.src not in blacklist)
not_blacklisted(tasks, blacklist) == SelectSeq(tasks, LAMBDA t : t.src \notin blacklist)

\* one logged line; `kind` tells which, the other fields are those it shows
Line(kind) ==
    [kind |-> kind, number |-> 0, src |-> "", status |-> "", strike |-> FALSE,
     newbug |-> FALSE, entries |-> <<>>, n |-> 0]

\* a faulty variant: the call is accepted
compose_pretty_accepted == FALSE

\* the keyword arguments of the call task.compose_pretty(...), lines 400-403
compose_pretty_call_keywords == {"shortlinks", "extended", "newbug", "open_bug_statuses"}

\* the parameters of Task.compose_pretty, task.py line 326
compose_pretty_parameters == {"shortlinks", "extended", "newbug"}

\* the call raises TypeError for a keyword the method does not take
compose_pretty_raises == ~(compose_pretty_call_keywords \subseteq compose_pretty_parameters)

\* Task.compose_pretty: the full line of a task
compose_pretty(task, newbug) ==
    [Line("bug") EXCEPT !.number = task.number, !.src = task.src,
                        !.status = task.status, !.newbug = newbug]

\* Task.compose_dup: the reduced entry of a further task of a bug
compose_dup(task) == <<task.status, task.src>>

\* print_bug_line: the line is struck through for a postponed bug
print_bug_line(text, task, postponed_bugs) ==
    [text EXCEPT !.strike = in_list(task.number, postponed_bugs)]

\* handle_webbrowser(open_in_browser, url): the calls it makes, each with
\* the sleep that follows it in tenths of a second.  Its
\* `open_in_browser += 1` rebinds its own parameter only.
handle_webbrowser(open_in_browser, number) ==
    IF open_in_browser > 1 THEN <<[call |-> "open_new_tab", number |-> number, sleep |-> 12]>>
    ELSE IF open_in_browser = 1 THEN <<[call |-> "open", number |-> number, sleep |-> 50]>>
    ELSE <<>>

\* a faulty variant: a bug postponed until today is still postponed
postpone_until_ahead_or_today(postpone_until, today) == postpone_until >= today

\* line 331: postpone_until.date() > datetime.now().date()
postpone_until_ahead(postpone_until, today) == postpone_until > today

\* load_postponed_bugs: the bugs postponed until a day after today, and
\* the lines logged
load_postponed_bugs(pbugs, today) ==
    LET ahead == SelectSeq(pbugs, LAMBDA pbug : postpone_until_ahead(pbug[2], today))
        postponed_bugs == [i \in 1..Len(ahead) |-> ahead[i][1]]
    IN [postponed_bugs |-> postponed_bugs,
        log |-> <<Line("postponed_header")>>
                \o [i \in 1..Len(ahead) |->
                       [Line("postponed") EXCEPT !.number = ahead[i][1], !.n = ahead[i][2]]]
                \o (IF postponed_bugs = <<>> THEN <<Line("postponed_none")>> ELSE <<>>)
                \o <<Line("blank")>>]

\* bugs_to_tasks: the tasks the tracker holds for bug numbers
RECURSIVE bugs_to_tasks(_)
bugs_to_tasks(bug_numbers) ==
    IF bug_numbers = <<>> THEN <<>>
    ELSE <<[number |-> Head(bug_numbers), src |-> "a", status |-> "Fix Released",
            last_activity_ours |-> FALSE, date_last_updated |-> 0]>>
         \o bugs_to_tasks(Tail(bug_numbers))

\* no file name given
NoFile == "None"

\* no limit_subscribed given
NoLimit == -1

\* what a call has emitted: the lines logged, the browser calls, the file
\* saved (if any) and the exception that ended it ("none": it returned)
Emitted(log, opened, saved, exc) ==
    [log |-> log, opened |-> opened, saved |-> saved, exc |-> exc]

NotSaved == [written |-> FALSE, bugs |-> <<>>]

\* the loop of lines 385-407 from task i on; st holds the loop's variables
RECURSIVE print_loop(_, _, _, _, _)
print_loop(tasks, i, st, a, env) ==
    IF i > Len(tasks) \/ st.exc # "none" THEN st
    ELSE LET task == tasks[i]
         IN IF in_list(task.number, st.reportedbugs)
            THEN print_loop(tasks, i + 1,
                     [st EXCEPT !.further_tasks = Append(@, compose_dup(task))], a, env)
            ELSE LET flushed == IF st.further_tasks # <<>>
                                THEN Append(st.log, [Line("also") EXCEPT
                                                       !.entries = st.further_tasks])
                                ELSE st.log
                     newbug == a.filename_compare # NoFile
                               /\ ~in_list(task.number, env.former_bugs)
                 IN IF compose_pretty_raises
                    THEN [st EXCEPT !.log = flushed, !.further_tasks = <<>>,
                                    !.exc = "TypeError"]
                    ELSE IF a.filename_postponed = NoFile
                    THEN [st EXCEPT !.log = flushed, !.further_tasks = <<>>,
                                    !.exc = "UnboundLocalError"]
                    ELSE print_loop(tasks, i + 1,
                             [st EXCEPT
                                !.log = Append(flushed,
                                           print_bug_line(compose_pretty(task, newbug), task,
                                                          st.postponed_bugs)),
                                !.further_tasks = <<>>,
                                !.opened = @ \o handle_webbrowser(a.open_in_browser,
                                                                  task.number),
                                !.reportedbugs = Append(@, task.number)],
                             a, env)

\* the arguments of the calls print_bugs makes for its two sub-reports and
\* that handle_files makes for the bugs gone
sub_report_args(a) ==
    [open_in_browser |-> a.open_in_browser, blacklist |-> {},
     limit_subscribed |-> NoLimit, oder_by_date |-> FALSE, is_sorted |-> TRUE,
     filename_save |-> NoFile, filename_compare |-> NoFile,
     filename_postponed |-> NoFile]

gone_report_args == sub_report_args([open_in_browser |-> 0])

\* x[-n:] of a list
last_n(x, n) == IF n = 0 THEN x ELSE SubSeq(x, Len(x) - n + 1, Len(x))

\* lines 346-355: the list as given, or filtered and sorted
sorted_filtered_tasks(tasks, a) ==
    IF a.is_sorted THEN tasks
    ELSE sorted(not_blacklisted(tasks, a.blacklist), a.oder_by_date)

\* a faulty variant: an empty list is printed like any other
nothing_found_ignored(sorted_filtered) == FALSE

\* line 363: len(sorted_filtered_tasks) == 0
nothing_found(sorted_filtered) == Len(sorted_filtered) = 0

\* print_bugs(tasks, ...): a are its arguments, env the files it reads and
\* the day
RECURSIVE print_bugs(_, _, _)
print_bugs(tasks, a, env) ==
    LET listed == sorted_filtered_tasks(tasks, a)
        loaded == IF a.filename_postponed # NoFile
                  THEN load_postponed_bugs(env.postponed, env.today)
                  ELSE [postponed_bugs |-> <<>>, log |-> <<>>]
        found == loaded.log
                 \o <<[Line("found") EXCEPT !.n = Len(listed)]>>
        header == Append(found, Line("header"))
    IN IF nothing_found(listed)
       THEN Emitted(found, <<>>, NotSaved, "none")
       ELSE IF a.limit_subscribed # NoLimit /\ Len(listed) > a.limit_subscribed
       THEN LET recent == print_bugs(SubSeq(listed, 1, a.limit_subscribed),
                                     sub_report_args(a), env)
                log1 == header
                        \o <<[Line("split") EXCEPT !.n = a.limit_subscribed],
                             Line("recent")>>
                        \o recent.log
            IN IF recent.exc # "none"
               THEN Emitted(log1, recent.opened, NotSaved, recent.exc)
               ELSE LET oldest == print_bugs(last_n(listed,
                                                    a.limit_subscribed),
                                             sub_report_args(a), env)
                    IN Emitted(log1 \o <<Line("separator"), Line("oldest")>> \o oldest.log,
                               recent.opened \o oldest.opened, NotSaved, oldest.exc)
       ELSE LET st == print_loop(listed, 1,
                          [log |-> header, reportedbugs |-> <<>>, further_tasks |-> <<>>,
                           opened |-> <<>>, exc |-> "none",
                           postponed_bugs |-> loaded.postponed_bugs], a, env)
                log2 == IF st.further_tasks # <<>>
                        THEN Append(st.log, [Line("also") EXCEPT
                                               !.entries = st.further_tasks])
                        ELSE st.log
            IN IF st.exc # "none" THEN Emitted(st.log, st.opened, NotSaved, st.exc)
               \* line 414 reads former_bugs, bound only with a file to compare to
               ELSE IF a.filename_compare = NoFile
               THEN Emitted(log2, st.opened, NotSaved, "UnboundLocalError")
               \* handle_files, lines 278-292
               ELSE LET saved == IF a.filename_save # NoFile
                                 THEN [written |-> TRUE, bugs |-> st.reportedbugs]
                                 ELSE NotSaved
                        log3 == IF a.filename_save # NoFile
                                THEN Append(log2, Line("saved")) ELSE log2
                        closed_bugs == SelectSeq(env.former_bugs,
                                           LAMBDA x : ~in_list(x, st.reportedbugs))
                        gone == print_bugs(bugs_to_tasks(closed_bugs), gone_report_args, env)
                    IN Emitted(log3 \o <<Line("blank"), Line("gone_header")>> \o gone.log,
                               st.opened \o gone.opened, saved, gone.exc)

(***************************************************************************)
(* The calls of print_bugs: the triage report of main (line 760), the      *)
(* tagged list of print_tagged_bugs (line 650) and the subscribed list of  *)
(* print_subscribed_bugs (line 684).                                       *)
(***************************************************************************)
\* the longest task list printed
MaxTasks == 3

Numbers == {2, 10}
Sources == {"a", "b", "lxd"}

\* the tasks a list is made of; all tasks of a bug share the bug's
\* last-updated day
ReportTasks ==
    {[number |-> n, src |-> p, status |-> "New", last_activity_ours |-> ours,
      date_last_updated |-> IF n = 2 THEN 1 ELSE 0] :
        n \in Numbers, p \in Sources, ours \in BOOLEAN}

\* the lists of up to MaxTasks different tasks
TaskLists ==
    {l \in UNION {[1..k -> ReportTasks] : k \in 0..MaxTasks} :
        \A i, j \in 1..Len(l) : i # j => l[i] # l[j]}

print_args(open, blacklist, limit, by_date, save, compare, postponed) ==
    [open_in_browser |-> open, blacklist |-> blacklist, limit_subscribed |-> limit,
     oder_by_date |-> by_date, is_sorted |-> FALSE, filename_save |-> save,
     filename_compare |-> compare, filename_postponed |-> postponed]

TriageCalls ==
    {print_args(open, bl, NoLimit, FALSE, NoFile, NoFile, NoFile) :
        open \in {0, 1}, bl \in {{}, PACKAGE_BLACKLIST}}

TaggedCalls ==
    {print_args(open, PACKAGE_BLACKLIST, NoLimit, FALSE, save, compare, postponed) :
        open \in {0, 1}, save \in {NoFile, "save.yaml", "compare.yaml"},
        compare \in {NoFile, "compare.yaml"}, postponed \in {NoFile, "postponed.yaml"}}

SubscribedCalls ==
    {print_args(open, PACKAGE_BLACKLIST, limit, TRUE, NoFile, NoFile, NoFile) :
        open \in {0, 1}, limit \in {NoLimit} \cup (1..(MaxTasks - 1))}

\* the files, and the day: bug 2 is postponed until tomorrow, bug 10 until
\* today; the list compared to holds bug 2 and a bug 7 since gone
PrintEnv ==
    [today |-> 1, former_bugs |-> <<2, 7>>, postponed |-> << <<2, 2>>, <<10, 1>> >>]

PrintBugs ==
    /\ pcall.op = "none"
    /\ \E tasks \in TaskLists, a \in TriageCalls \cup TaggedCalls \cup SubscribedCalls :
          pcall' = [op |-> "print_bugs", tasks |-> tasks, a |-> a,
                    sorted_filtered_tasks |-> sorted_filtered_tasks(tasks, a),
                    out |-> print_bugs(tasks, a, PrintEnv)]
    /\ UNCHANGED <<dcall, remote, cbl, tcall>>

\* the report has been read: the next one can be made
PrintDone ==
    /\ pcall.op = "print_bugs"
    /\ pcall' = NoCall
    /\ UNCHANGED <<dcall, remote, cbl, tcall>>

\* the files as a call leaves them: the bugs reported are in the file
\* saved (lines 281-283), which is read again when it is the file compared to
env_after(env, a, out) ==
    IF out.saved.written /\ a.filename_save = a.filename_compare
    THEN [env EXCEPT !.former_bugs = out.saved.bugs]
    ELSE env

\* print_bugs is called once more, with the same list and arguments
PrintBugsAgain ==
    /\ pcall.op = "print_bugs"
    /\ pcall' = [op |-> "print_bugs_again", tasks |-> pcall.tasks, a |-> pcall.a,
                 first |-> pcall.out,
                 out |-> print_bugs(pcall.tasks, pcall.a,
                                    env_after(PrintEnv, pcall.a, pcall.out))]
    /\ UNCHANGED <<dcall, remote, cbl, tcall>>

\* the postponement files read: up to two entries (bug number, day)
PostponedFiles ==
    UNION {[1..k -> Numbers \X (0..2)] : k \in 0..2}

\* load_postponed_bugs(filename_postponed) on the day PrintEnv.today, then
\* print_bug_line for the composed line of one task
PrintBugLine ==
    /\ pcall.op = "none"
    /\ \E pbugs \in PostponedFiles, task \in ReportTasks :
          LET loaded == load_postponed_bugs(pbugs, PrintEnv.today)
              text == compose_pretty(task, FALSE)
          IN pcall' = [op |-> "print_bug_line", pbugs |-> pbugs, task |-> task,
                       postponed_bugs |-> loaded.postponed_bugs,
                       text |-> text,
                       out |-> Emitted(Append(loaded.log,
                                           print_bug_line(text, task, loaded.postponed_bugs)),
                                       <<>>, NotSaved, "none")]
    /\ UNCHANGED <<dcall, remote, cbl, tcall>>

InitPrint ==
    /\ pcall = NoCall
    /\ dcall = NoCall
    /\ remote = <<>>
    /\ cbl = <<>>
    /\ tcall = NoCall

NextPrint == PrintBugs \/ PrintDone \/ PrintBugLine \/ PrintBugsAgain

SpecPrint == InitPrint /\ [][NextPrint]_vars

(***************************************************************************)
(* The functions of one task.  last_activity_ours(task, activitysubscribers)*)
(* reads the messages of the task's bug.  A message is its creation time   *)
(* and the answer to the request for its owner: the owner ("200"), gone    *)
(* ("410") or another error ("500").  The messages collection is ordered   *)
(* by creation time, and a bug has at least one message, its description.  *)
(***************************************************************************)
\* time units in timedelta(hours=1)
Hour == 3

\* the number of messages looked at, line 440
Inspected == 3

MaxMsgs == Inspected + 1
MsgDates == 0..(2 * Hour)

Owners ==
    {[owner |-> "alice", status |-> "200"], [owner |-> "mallory", status |-> "200"],
     [owner |-> "gone", status |-> "410"], [owner |-> "broken", status |-> "500"]}

Messages == {[date_created |-> d, owner |-> o.owner, status |-> o.status] :
             d \in MsgDates, o \in Owners}

BugMessages ==
    {m \in UNION {[1..n -> Messages] : n \in 1..MaxMsgs} :
        \A i \in 1..(Len(m) - 1) : m[i].date_created <= m[i + 1].date_created}

ActivitySubscribers == {{}, {"alice"}, {"alice", "bob"}}

\* last_msgs_start, line 440
last_msgs_start(last_msgs_end) ==
    IF last_msgs_end < Inspected THEN 0 ELSE last_msgs_end - Inspected

\* the loop of lines 441-447 from message i of the slice on: the pairs
\* appended, or the ClientError raised again, and the owners requested
RECURSIVE collect_activity(_, _, _)
collect_activity(msgs, i, activity_list) ==
    IF i > Len(msgs)
    THEN [exc |-> "none", activity_list |-> activity_list, requested |-> Len(msgs)]
    ELSE IF msgs[i].status = "410"
    THEN collect_activity(msgs, i + 1, activity_list)
    ELSE IF msgs[i].status # "200"
    THEN [exc |-> "ClientError", activity_list |-> activity_list, requested |-> i]
    ELSE collect_activity(msgs, i + 1,
             Append(activity_list, <<msgs[i].date_created, msgs[i].owner>>))

\* a faulty variant: the threshold is the most recent activity itself
recent_activity_threshold_now(most_recent_activity) == most_recent_activity[1]

\* recent_activity_threshold, lines 453-455
recent_activity_threshold(most_recent_activity) == most_recent_activity[1] - Hour

\* the loop of lines 458-461 over reversed(activity_list): position i and
\* below of activity_list
RECURSIVE recent_activities(_, _, _, _)
recent_activities(activity_list, i, threshold, all_recent_activities) ==
    IF i < 1 THEN all_recent_activities
    ELSE IF activity_list[i][1] < threshold THEN all_recent_activities
    ELSE recent_activities(activity_list, i - 1, threshold,
                           Append(all_recent_activities, activity_list[i]))

\* a faulty variant: one of the recent activities being ours is enough
any_ours(all_recent_activities, links) ==
    \E i \in 1..Len(all_recent_activities) : all_recent_activities[i][2] \in links

\* all(a[1] in activitysubscribers_links for a in all_recent_activities)
all_ours(all_recent_activities, links) ==
    \A i \in 1..Len(all_recent_activities) : all_recent_activities[i][2] \in links

NoActivity == [exc |-> "none", value |-> FALSE, requested |-> 0,
               activity_list |-> <<>>, all_recent_activities |-> <<>>]

\* last_activity_ours(task, activitysubscribers), messages == task.bug.messages
last_activity_ours(messages, activitysubscribers) ==
    IF activitysubscribers = {} THEN NoActivity
    ELSE
    LET last_msgs_end == Len(messages)
        c == collect_activity(SubSeq(messages, last_msgs_start(last_msgs_end) + 1,
                                     last_msgs_end), 1, <<>>)
    IN  IF c.exc # "none"
        THEN [NoActivity EXCEPT !.exc = c.exc, !.requested = c.requested,
                                !.activity_list = c.activity_list]
        ELSE IF c.activity_list = <<>>
        THEN [NoActivity EXCEPT !.exc = "IndexError", !.requested = c.requested]
        ELSE
        LET most_recent_activity == c.activity_list[Len(c.activity_list)]
            activity_list == SubSeq(c.activity_list, 1, Len(c.activity_list) - 1)
            all_recent_activities ==
                recent_activities(activity_list, Len(activity_list),
                                  recent_activity_threshold(most_recent_activity),
                                  <<most_recent_activity>>)
        IN  [exc |-> "none",
             value |-> all_ours(all_recent_activities, activitysubscribers),
             requested |-> c.requested,
             activity_list |-> c.activity_list,
             all_recent_activities |-> all_recent_activities]

LastActivityOurs ==
    /\ tcall.op = "none"
    /\ \E messages \in BugMessages, activitysubscribers \in ActivitySubscribers :
          tcall' = [op |-> "last_activity_ours", messages |-> messages,
                    activitysubscribers |-> activitysubscribers,
                    out |-> last_activity_ours(messages, activitysubscribers)]
    /\ UNCHANGED <<dcall, remote, cbl, pcall>>

(***************************************************************************)
(* Task.get_releases(length).  A task of the bug is the elements of its URL *)
(* that the function reads (the project, the series or "+source" where the *)
(* URL names no series, the source package), its status, and whether the   *)
(* package has an upload of that series waiting in the unapproved queue    *)
(* that names the bug.  A character of the result is the letter and its    *)
(* colour.                                                                 *)
(***************************************************************************)
MaxBugTasks == 2

BugTaskObjects ==
    [project : {"ubuntu", "debian"}, series : {"+source", "jammy", "focal"},
     src : {"a", "b"}, status : {"New", "Fix Released"}, unapproved : BOOLEAN]

BugTaskLists == UNION {[1..n -> BugTaskObjects] : n \in 0..MaxBugTasks}

\* Task.NOWORK_BUG_STATUSES and Task.OPEN_BUG_STATUSES, task.py lines 107-108
Task_NOWORK_BUG_STATUSES == {}
Task_OPEN_BUG_STATUSES == {}

\* series[0]
first_char(series) ==
    CASE series = "+source" -> "+"
      [] series = "jammy" -> "j"
      [] series = "focal" -> "f"

\* str.upper() on one letter
upper(c) ==
    CASE c = "d" -> "D"
      [] c = "j" -> "J"
      [] c = "f" -> "F"
      [] OTHER -> c

\* mark(text, color)
mark(text, color) == [char |-> text, color |-> color]
unmarked(text) == [char |-> text, color |-> "none"]

\* one round of the loop of lines 265-290: what is added to release_info
release_char_of(self_src, task) ==
    IF task.project # "ubuntu" THEN <<>>
    ELSE IF task.src # self_src THEN <<>>
    ELSE
    LET c0 == first_char(task.series)
        release_char == upper(IF c0 = "+" THEN "d" ELSE c0)
    IN  IF task.status \in Task_NOWORK_BUG_STATUSES
        THEN <<mark(release_char, "COLOR_GREEN")>>
        ELSE IF release_char \notin {"d", "D"} /\ task.unapproved
        THEN <<mark(release_char, "COLOR_CYAN")>>
        ELSE IF task.status \in Task_OPEN_BUG_STATUSES
        THEN <<mark(release_char, "COLOR_YELLOW")>>
        ELSE <<unmarked(release_char)>>

RECURSIVE release_info_of(_, _, _)
release_info_of(self_src, bug_tasks, i) ==
    IF i > Len(bug_tasks) THEN <<>>
    ELSE release_char_of(self_src, bug_tasks[i])
             \o release_info_of(self_src, bug_tasks, i + 1)

\* ' ' * n
RECURSIVE spaces(_)
spaces(n) == IF n <= 0 THEN <<>> ELSE <<unmarked(" ")>> \o spaces(n - 1)

\* re.sub('[^A-Z]+', '', release_info): the upper case letters are left
printable_of(release_info) ==
    SelectSeq(release_info, LAMBDA m : m.char \in {"D", "J", "F"})

\* Task.get_releases(length)
get_releases(self_src, bug_tasks, length) ==
    LET release_info == release_info_of(self_src, bug_tasks, 1)
        p_need == length - Len(printable_of(release_info))
    IN  release_info \o spaces(p_need)

\* compose_pretty calls self.get_releases(6)
GetReleases ==
    /\ tcall.op = "none"
    /\ \E self_src \in {"a", "b"}, bug_tasks \in BugTaskLists :
          tcall' = [op |-> "get_releases", src |-> self_src, bug_tasks |-> bug_tasks,
                    out |-> get_releases(self_src, bug_tasks, 6)]
    /\ UNCHANGED <<dcall, remote, cbl, pcall>>

(***************************************************************************)
(* Task.get_flags(newbug).  A tag is the sequence of the pieces it is made *)
(* of, so that `needle in tag` is the test whether the needle is one of    *)
(* them.  Task.AGE and Task.OLD are None (NoDate) or a time.               *)
(***************************************************************************)
FlagTags ==
    {<<"verification-needed-", "jammy">>, <<"verification-done-", "jammy">>,
     <<DEFAULTTAG>>}

\* needle in tag
contains(tag, needle) == \E i \in 1..Len(tag) : tag[i] = needle

\* a faulty variant: the 'O' threshold is looked at first
age_flag_old_first(date_last_updated, AGE, OLD) ==
    IF OLD # NoDate /\ date_last_updated < OLD THEN "O"
    ELSE IF AGE # NoDate /\ date_last_updated > AGE THEN "U"
    ELSE " "

\* lines 308-313
age_flag(date_last_updated, AGE, OLD) ==
    IF AGE # NoDate /\ date_last_updated > AGE THEN "U"
    ELSE IF OLD # NoDate /\ date_last_updated < OLD THEN "O"
    ELSE " "

\* Task.get_flags(newbug), with the class attributes Task.AGE and Task.OLD
get_flags(task, newbug, AGE, OLD) ==
    <<unmarked(IF task.subscribed THEN "*" ELSE " "),
      unmarked(IF task.last_activity_ours THEN "+" ELSE " "),
      unmarked(age_flag(task.date_last_updated, AGE, OLD)),
      unmarked(IF newbug THEN "N" ELSE " "),
      IF \E tag \in task.tags : contains(tag, "verification-needed-")
      THEN mark("v", "COLOR_CYAN") ELSE unmarked(" "),
      IF \E tag \in task.tags : contains(tag, "verification-done-")
      THEN mark("V", "COLOR_GREEN") ELSE unmarked(" ")>>

FlagTasks ==
    [subscribed : BOOLEAN, last_activity_ours : BOOLEAN,
     date_last_updated : Times, tags : SUBSET FlagTags]

\* compose_pretty calls self.get_flags(newbug)
GetFlags ==
    /\ tcall.op = "none"
    /\ \E task \in FlagTasks, newbug \in BOOLEAN,
          AGE \in Times \cup {NoDate}, OLD \in Times \cup {NoDate} :
          tcall' = [op |-> "get_flags", task |-> task, newbug |-> newbug,
                    AGE |-> AGE, OLD |-> OLD,
                    out |-> get_flags(task, newbug, AGE, OLD)]
    /\ UNCHANGED <<dcall, remote, cbl, pcall>>

InitTask ==
    /\ tcall = NoCall
    /\ dcall = NoCall
    /\ remote = <<>>
    /\ cbl = <<>>
    /\ pcall = NoCall

NextTask == LastActivityOurs \/ GetReleases \/ GetFlags

SpecTask == InitTask /\ [][NextTask]_vars

(***************************************************************************)
(* The claim about the bug delta, under SpecDelta.                         *)
(***************************************************************************)
DateBounded == cbl.start_date # NoDate /\ cbl.end_date # NoDate

\* the self_links of the tasks create_bug_list returned
ResultLinks == {t.obj : t \in cbl.bugs}

\* C1: in a date-bounded query a task is in create_bug_list's result if and
\* only if it is in the snapshot fetched since start and not in the snapshot
\* fetched since end, in the direct and in the structural branch alike; no
\* task of the since-end snapshot and no task outside the since-start
\* snapshot is in the result.
C1_DeltaIsDifference ==
    (cbl.pc = "done" /\ DateBounded)
        => /\ \A link \in AllTasks :
                 link \in ResultLinks
                     <=> (link \in cbl.bugs_since_start /\ link \notin cbl.bugs_since_end)
           /\ ResultLinks \cap cbl.bugs_since_end = {}
           /\ ResultLinks \subseteq cbl.bugs_since_start
           /\ Cardinality(cbl.bugs) = Cardinality(ResultLinks)

\* a structural-subscriber query that returned a task, while the since-end
\* snapshot held a task the since-start snapshot did not (a bug updated
\* between the two searches)
C1_Witness ==
    /\ cbl.pc = "done"
    /\ DateBounded
    /\ ~cbl.bugsubscriber
    /\ ResultLinks # {}
    /\ cbl.bugs_since_end \ cbl.bugs_since_start # {}

(***************************************************************************)
(* The claims about the date range resolver, under SpecDates.              *)
(***************************************************************************)
weekday_names == <<"Monday", "Tuesday", "Wednesday", "Thursday", "Friday">>

\* a Monday-to-Friday name of a day
IsWorkdayKeyword(k) == k.kind = "kw" /\ k.wd \in 0..4

\* C2: for every today and every keyword Monday..Friday,
\* reverse_auto_date_range applied to the range auto_date_range returned
\* gives "<Weekday> triage" for that same weekday.
C2_ReverseOfForward ==
    (dcall.op = "reverse_of_auto" /\ IsWorkdayKeyword(dcall.keyword))
        => dcall.label = weekday_names[dcall.keyword.wd + 1] \o " triage"

\* the round trip of "mon" made on a Monday: 2019-05-13 gives the weekend
\* 2019-05-10 .. 2019-05-12, named "Monday triage"
C2_Witness ==
    /\ dcall.op = "reverse_of_auto"
    /\ dcall.keyword = Kw(0)
    /\ dcall.today = Ymd2Ord(<<2019, 5, 13>>)
    /\ dcall.start = Ymd2Ord(<<2019, 5, 10>>)
    /\ dcall.end = Ymd2Ord(<<2019, 5, 12>>)
    /\ dcall.label = "Monday triage"

\* the most recent day on or before today that falls on weekday k
LastOn(today, k) == CHOOSE d \in (today - 6)..today : weekday(d) = k

\* C3: for keyword K in Monday..Friday and L the most recent K on or before
\* today, auto_date_range returns (L-3, L-1) when K is Monday and (L-1, L-1)
\* otherwise; the range lies strictly before today.
C3_AutoDateRange ==
    (dcall.op = "auto_date_range" /\ IsWorkdayKeyword(dcall.keyword))
        => LET L == LastOn(dcall.today, dcall.keyword.wd)
           IN /\ dcall.r.exc = "none"
              /\ dcall.r.end = L - 1
              /\ dcall.r.start = (IF dcall.keyword.wd = 0 THEN L - 3 ELSE L - 1)
              /\ dcall.r.end < dcall.today

\* today = Monday 2019-05-13 and "tue": the Monday a week before, 2019-05-06
C3_Witness ==
    /\ dcall.op = "auto_date_range"
    /\ dcall.keyword = Kw(1)
    /\ dcall.today = Ymd2Ord(<<2019, 5, 13>>)
    /\ dcall.r = [exc |-> "none", start |-> Ymd2Ord(<<2019, 5, 6>>),
                  end |-> Ymd2Ord(<<2019, 5, 6>>)]

\* C4: for every today, auto_date_range with a Saturday or Sunday keyword
\* fails with ValueError and returns no range.
C4_WeekendRejected ==
    (dcall.op = "auto_date_range" /\ dcall.keyword.kind = "kw" /\ dcall.keyword.wd \in {5, 6})
        => dcall.r.exc = "ValueError"

C4_Witness ==
    /\ dcall.op = "auto_date_range"
    /\ dcall.keyword = Kw(5)
    /\ dcall.today = Ymd2Ord(<<2019, 5, 14>>)
    /\ dcall.r.exc = "ValueError"

\* C5: reverse_auto_date_range returns None when start is after end, when
\* end is more than 2 days after start, when start = end is a Friday,
\* Saturday or Sunday, and for every range of several days that is not
\* exactly Friday to Sunday.
C5_ReverseNone ==
    dcall.op = "reverse_auto_date_range"
        => /\ dcall.start > dcall.end => dcall.label = "None"
           /\ dcall.end - dcall.start > 2 => dcall.label = "None"
           /\ (dcall.start = dcall.end /\ weekday(dcall.start) \in {4, 5, 6})
                  => dcall.label = "None"
           /\ (dcall.start < dcall.end
                  /\ ~(weekday(dcall.start) = 4 /\ dcall.end = dcall.start + 2))
                  => dcall.label = "None"

\* Monday 2019-05-06 to Tuesday 2019-05-07 has no label
C5_Witness ==
    /\ dcall.op = "reverse_auto_date_range"
    /\ dcall.start = Ymd2Ord(<<2019, 5, 6>>)
    /\ dcall.end = Ymd2Ord(<<2019, 5, 7>>)
    /\ dcall.label = "None"

\* C6: when start is absent, parse_dates resolves the inclusive range to
\* yesterday alone, or to Friday..Sunday when yesterday was a Sunday (the
\* returned end being the day after the inclusive end).
C6_DefaultIsYesterday ==
    (dcall.op = "parse_dates" /\ ~truthy(dcall.start) /\ dcall.r.exc = "none")
        => LET yesterday == dcall.now - 1
           IN /\ dcall.r.end = Iso(Ord2Ymd(yesterday + 1))
              /\ dcall.r.start = Iso(Ord2Ymd(IF weekday(yesterday) = 6
                                                 THEN yesterday - 2 ELSE yesterday))

\* the day after (y, m, d) in the calendar
NextYmd(t) ==
    IF t[3] < DaysInMonth(t[1], t[2]) THEN <<t[1], t[2], t[3] + 1>>
    ELSE IF t[2] < 12 THEN <<t[1], t[2] + 1, 1>>
    ELSE <<t[1] + 1, 1, 1>>

\* the inclusive range of a parse_dates call, from its arguments: the dates
\* given, the start itself for an ISO start without an end, the range
\* computed for a keyword or for no start
InclusiveRange(start, end, now) ==
    LET yesterday == now - 1
    IN IF ~truthy(start)
       THEN IF weekday(yesterday) = 6
            THEN <<Ord2Ymd(yesterday - 2), Ord2Ymd(yesterday)>>
            ELSE <<Ord2Ymd(yesterday), IF truthy(end) THEN end.ymd ELSE Ord2Ymd(yesterday)>>
       ELSE IF start.kind = "iso"
            THEN <<start.ymd, IF truthy(end) THEN end.ymd ELSE start.ymd>>
            ELSE LET r == auto_date_range(start, now)
                 IN <<Ord2Ymd(r.start), Ord2Ymd(r.end)>>

\* C7: every successful parse_dates call returns the inclusive start
\* unchanged and, as its end, the calendar day after the inclusive end, also
\* across month and year boundaries; main's subtraction of one day restores
\* the inclusive end.
C7_EndWidenedByOneDay ==
    /\ (dcall.op = "parse_dates" /\ dcall.r.exc = "none")
          => LET range == InclusiveRange(dcall.start, dcall.end, dcall.now)
             IN /\ dcall.r.start = Iso(range[1])
                /\ dcall.r.end = Iso(NextYmd(range[2]))
                /\ dcall.start.kind = "iso" => dcall.r.start = dcall.start
    /\ (dcall.op = "main" /\ dcall.r.exc = "none")
          => LET range == InclusiveRange(dcall.start, dcall.end, dcall.now)
             IN Ord2Ymd(dcall.r.inclusive_end) = range[2]

\* an ISO start on the last day of a year, without an end: the returned end
\* is the first day of the next year
C7_Witness ==
    /\ dcall.op = "parse_dates"
    /\ dcall.start = Iso(<<2019, 12, 31>>)
    /\ ~truthy(dcall.end)
    /\ dcall.r = [exc |-> "none", start |-> Iso(<<2019, 12, 31>>),
                  end |-> Iso(<<2020, 1, 1>>)]

\* C8: parse_dates fails with ValueError when start is a weekday keyword
\* given together with an end, and when start is neither an ISO date nor a
\* weekday keyword.
C8_UnparseableStartFails ==
    (dcall.op = "parse_dates"
        /\ \/ dcall.start.kind = "kw" /\ truthy(dcall.end)
           \/ dcall.start.kind \in {"loose", "junk"})
        => dcall.r.exc = "ValueError"

\* C17 as stated: reverse_auto_date_range returns a label only for ranges
\* of at most 2 days that start on a Friday, Saturday, Sunday or Monday;
\* every range that starts on a Tuesday, Wednesday or Thursday yields None.
C17_LabelOnlyFridayToMonday ==
    dcall.op = "reverse_auto_date_range"
        => /\ dcall.label # "None"
                 => /\ dcall.end - dcall.start \in 0..2
                    /\ weekday(dcall.start) \in {4, 5, 6, 0}
           /\ weekday(dcall.start) \in {1, 2, 3} => dcall.label = "None"

\* C17, amended: reverse_auto_date_range returns a label only for ranges
\* of at most 2 days that start on a Monday, Tuesday, Wednesday, Thursday
\* or Friday: a single day Monday..Thursday is named after the day that
\* follows it, Friday..Sunday is "Monday triage"; every range that starts
\* on a Saturday or Sunday yields None.
C17_LabelOnlyMondayToFriday ==
    dcall.op = "reverse_auto_date_range"
        => /\ dcall.label # "None"
                 => /\ dcall.end - dcall.start \in 0..2
                    /\ weekday(dcall.start) \in 0..4
           /\ weekday(dcall.start) \in {5, 6} => dcall.label = "None"
           /\ (dcall.start = dcall.end /\ weekday(dcall.start) \in 0..3)
                 => dcall.label = weekday_names[weekday(dcall.start) + 2] \o " triage"
           /\ (weekday(dcall.start) = 4 /\ dcall.end = dcall.start + 2)
                 => dcall.label = "Monday triage"

\* the single day Tuesday 2019-05-07 is the range of "Wednesday triage"
C17_Witness ==
    /\ dcall.op = "reverse_auto_date_range"
    /\ dcall.start = Ymd2Ord(<<2019, 5, 7>>)
    /\ dcall.end = dcall.start
    /\ dcall.label = "Wednesday triage"

(***************************************************************************)
(* The claims about the report renderer, under SpecPrint.                  *)
(***************************************************************************)
\* the list print_bugs renders: filtered and sorted
Rendered ==
    IF pcall.a.is_sorted THEN pcall.tasks
    ELSE sorted(not_blacklisted(pcall.tasks, pcall.a.blacklist), pcall.a.oder_by_date)

\* the call prints one report, not the two sub-reports
OneReport ==
    pcall.a.limit_subscribed = NoLimit \/ Len(Rendered) <= pcall.a.limit_subscribed

\* the places of the log that hold the full line of bug n
FullLines(log, n) == {i \in 1..Len(log) : log[i].kind = "bug" /\ log[i].number = n}

\* the tasks of bug n in a list, in the list's order
TasksOf(l, n) == SelectSeq(l, LAMBDA t : t.number = n)

RECURSIVE SumLen(_, _)
SumLen(log, i) ==
    IF i > Len(log) THEN 0
    ELSE (IF log[i].kind = "also" THEN Len(log[i].entries) ELSE 0) + SumLen(log, i + 1)

\* C9: in the output of one print_bugs call at most one full line is
\* printed per bug number, and every further task of the bug is an entry of
\* an "Also:" line.
C9_OneFullLinePerBug ==
    pcall.op = "print_bugs"
        => /\ \A n \in Numbers : Cardinality(FullLines(pcall.out.log, n)) <= 1
           /\ OneReport
                 => SumLen(pcall.out.log, 1)
                        = Len(Rendered)
                          - Cardinality({n \in Numbers : TasksOf(Rendered, n) # <<>>})

\* C10: for a list in which several tasks share a bug number, the first is
\* printed as one full line and all the others as the entries of exactly
\* one "Also:" line directly after it; an "Also:" line lists no task of
\* another bug than the full line before it.
C10_AlsoFollowsItsBug ==
    (pcall.op = "print_bugs" /\ OneReport)
        => \A n \in Numbers :
              LET same == TasksOf(Rendered, n)
                  log == pcall.out.log
              IN Len(same) >= 2
                    => \E i \in 1..(Len(log) - 1) :
                          /\ FullLines(log, n) = {i}
                          /\ log[i].src = same[1].src
                          /\ log[i + 1].kind = "also"
                          /\ log[i + 1].entries
                                = [k \in 1..(Len(same) - 1) |-> compose_dup(same[k + 1])]

\* how often x occurs in the list l
Count(l, x) == Cardinality({i \in 1..Len(l) : l[i] = x})

\* the key (not last_activity_ours, number, src) of t1 is at most that of
\* t2, the bug number and the package being compared as strings
KeyAtMost(t1, t2) ==
    \/ t1.last_activity_ours /\ ~t2.last_activity_ours
    \/ /\ t1.last_activity_ours = t2.last_activity_ours
       /\ \/ seq_less(digits(t1.number), digits(t2.number))
          \/ /\ t1.number = t2.number
             /\ (t1.src = t2.src \/ seq_less(chars(t1.src), chars(t2.src)))

\* C11: unless the list is declared sorted, print_bugs drops the tasks of
\* blacklisted packages and keeps all the others, ordered ascending by the
\* key (not last_activity_ours, bug number, source package), so that every
\* task with last_activity_ours precedes every task without; with date
\* ordering the order is by last-updated day, descending.
C11_FilteredAndSorted ==
    (pcall.op = "print_bugs" /\ ~pcall.a.is_sorted)
        => LET r == pcall.sorted_filtered_tasks
           IN /\ \A t \in ReportTasks :
                    Count(r, t) = (IF t.src \in pcall.a.blacklist THEN 0
                                   ELSE Count(pcall.tasks, t))
              /\ ~pcall.a.oder_by_date
                    => \A i, j \in 1..Len(r) :
                          i < j => /\ KeyAtMost(r[i], r[j])
                                   /\ r[j].last_activity_ours => r[i].last_activity_ours
              /\ pcall.a.oder_by_date
                    => \A i, j \in 1..Len(r) :
                          i < j => r[i].date_last_updated >= r[j].date_last_updated

\* a list given out of order with a blacklisted package in it: the package
\* is dropped and bug "10" comes before bug "2"
C11_Witness ==
    /\ pcall.op = "print_bugs"
    /\ ~pcall.a.is_sorted /\ ~pcall.a.oder_by_date
    /\ pcall.a.blacklist = PACKAGE_BLACKLIST
    /\ Len(pcall.tasks) = 3
    /\ pcall.tasks[1].number = 2 /\ ~pcall.tasks[1].last_activity_ours
    /\ pcall.tasks[2].src = "lxd"
    /\ pcall.tasks[3].number = 10 /\ ~pcall.tasks[3].last_activity_ours
    /\ pcall.sorted_filtered_tasks = <<pcall.tasks[3], pcall.tasks[1]>>

\* the places of the log that hold a line of the given kind
LinesOf(log, kind) == {i \in 1..Len(log) : log[i].kind = kind}

\* the tasks printed in a piece of the log: one per full line and one per
\* entry of an "Also:" line
PrintedTasks(log) == Cardinality(LinesOf(log, "bug")) + SumLen(log, 1)

\* the log of the report itself, without the list of the bugs gone
ReportLog(log) ==
    IF LinesOf(log, "gone_header") = {} THEN log
    ELSE SubSeq(log, 1, (CHOOSE i \in LinesOf(log, "gone_header") :
                            \A j \in LinesOf(log, "gone_header") : i <= j) - 1)

\* C12: with a limit N and more than N tasks in the sorted, filtered list,
\* print_bugs prints a "Recent tasks" sub-report with the first N tasks and
\* an "Oldest tasks" sub-report with the last N tasks, N tasks each, and
\* not the full list; without a limit, or with at most N tasks, it prints
\* the whole list once.
C12_SplitInTwo ==
    pcall.op = "print_bugs"
        => LET log == pcall.out.log
               N == pcall.a.limit_subscribed
               r == pcall.sorted_filtered_tasks
           IN IF N # NoLimit /\ Len(r) > N
              THEN \E i, j \in 1..Len(log) :
                      /\ i < j
                      /\ LinesOf(log, "recent") = {i}
                      /\ LinesOf(log, "oldest") = {j}
                      /\ PrintedTasks(SubSeq(log, 1, i)) = 0
                      /\ PrintedTasks(SubSeq(log, i + 1, j - 1)) = N
                      /\ PrintedTasks(SubSeq(log, j + 1, Len(log))) = N
                      /\ \E k \in (i + 1)..(j - 1) :
                            log[k].kind = "bug" /\ log[k].number = r[1].number
                      /\ \E k \in (j + 1)..Len(log) :
                            log[k].kind = "bug" /\ log[k].number = r[Len(r) - N + 1].number
              ELSE /\ LinesOf(log, "recent") = {} /\ LinesOf(log, "oldest") = {}
                   /\ PrintedTasks(ReportLog(log)) = Len(r)

\* the bug numbers of the previous snapshot without a full line in the
\* report, in the snapshot's order
ExpectedGone(log) ==
    SelectSeq(PrintEnv.former_bugs, LAMBDA x : FullLines(ReportLog(log), x) = {})

\* C13: when a file to compare to is given, print_bugs completes the report
\* of a list that is not empty and the bugs reported as gone are the bug
\* numbers of the previous snapshot that got no full line in the report:
\* the list "Bugs gone compared with" is printed and holds that many bugs.
C13_GoneAreTheUnreported ==
    (pcall.op = "print_bugs" /\ pcall.a.filename_compare # NoFile
        /\ pcall.sorted_filtered_tasks # <<>>)
        => LET log == pcall.out.log
           IN \E i \in 1..(Len(log) - 1) :
                 /\ LinesOf(log, "gone_header") = {i}
                 /\ log[i + 1].kind = "found"
                 /\ log[i + 1].n = Len(ExpectedGone(log))

(***************************************************************************)
(* The claims about the searches, under SpecDelta.                         *)
(***************************************************************************)
\* the targets a search goes to: the distribution and its active series
QueriedTargets ==
    {"ubuntu"} \cup {series_collection[i].name : i \in
                        {k \in 1..Len(series_collection) : series_collection[k].active}}

\* the search create_bug_list makes since a day (or NoDate)
QueryOf(since) ==
    IF cbl.bugsubscriber THEN direct_query(since, cbl.tags) ELSE structural_query(since)

\* result holds one task for every (bug, package) of a task that the search
\* of a queried target returns, each of them such a task, and no other
OnePerKey(result, rem, query) ==
    LET found == UNION {searchTasks(rem, target, query) : target \in QueriedTargets}
    IN /\ result \subseteq found
       /\ \A t \in found :
             Cardinality({r \in result : r.bug = t.bug /\ r.pkg = t.pkg}) = 1

\* C14: searchTasks_in_all_active_series returns exactly one task for every
\* (bug, package name) that the search of the distribution or of an active
\* series returns, a task of those searches, and nothing else; a series
\* that is not active is not searched.
C14_OneTaskPerBugAndPackage ==
    [][/\ (cbl.pc = "since_start" /\ cbl'.pc = "since_end")
             => OnePerKey(cbl'.bugs_since_start, remote, QueryOf(cbl.start_date))
       /\ (cbl.pc = "since_end" /\ cbl'.pc # "since_end")
             => OnePerKey(cbl'.bugs_since_end, remote, QueryOf(cbl.end_date))
       /\ (cbl.pc = "all" /\ cbl'.pc = "compute")
             => OnePerKey(cbl'.bugs_in_range, remote, QueryOf(NoDate))]_vars

\* the tracker holds bug 1 of package a in the distribution, in the active
\* series s1 and in the inactive s2, and bug 2 in s1 and s3: one task for
\* each bug is returned, none of s2
C14_Witness ==
    /\ cbl.pc = "since_end"
    /\ cbl.start_date = 0
    /\ ~cbl.bugsubscriber
    /\ cbl.bugs_since_start = {bug_task(1, "a", "s1"), bug_task(2, "a", "s3")}

\* C15: with start and end both absent create_bug_list makes no since-start
\* and no since-end search and subtracts nothing: it makes one search
\* without a modified-since bound and returns one Task for every task of
\* that search.
C15_AllTimeIsUnfiltered ==
    (cbl.pc = "done" /\ cbl.start_date = NoDate /\ cbl.end_date = NoDate)
        => /\ ResultLinks = searchTasks_in_all_active_series(remote, QueryOf(NoDate))
           /\ Cardinality(cbl.bugs) = Cardinality(ResultLinks)
           /\ cbl.bugs_in_range = ResultLinks
           /\ cbl.bugs_since_start = {} /\ cbl.bugs_since_end = {}
           /\ cbl.already_sub_since_start = {}

\* an all-time structural search that returned the tasks of package a
C15_Witness ==
    /\ cbl.pc = "done"
    /\ cbl.start_date = NoDate /\ cbl.end_date = NoDate
    /\ ~cbl.bugsubscriber
    /\ ResultLinks = {bug_task(1, "a", "s1"), bug_task(2, "a", "s3")}

\* the bug was not updated while the call ran: an update moves the bug's
\* last-updated day to the present, MaxTime
NotUpdatedMeanwhile(b) == remote.modified[b] < MaxTime

\* C16: with a search "modified since X" that returns the tasks last updated
\* at or after X, the date-bounded result of create_bug_list holds, of the
\* tasks the search matches otherwise, exactly those last updated at a day
\* t with start <= t < end; a task updated at or after end is not in it.
\* (For a bug updated between the searches t is not one day; C1 covers it.)
C16_UpdatedWithinRange ==
    (cbl.pc = "done" /\ DateBounded)
        => LET matching == searchTasks_in_all_active_series(remote, QueryOf(NoDate))
           IN /\ ResultLinks \subseteq matching
              /\ \A t \in matching :
                    NotUpdatedMeanwhile(t.bug)
                        => (t \in ResultLinks
                               <=> (cbl.start_date <= remote.modified[t.bug]
                                       /\ remote.modified[t.bug] < cbl.end_date))

\* the range of day 0 alone: bug 1, last updated on day 0, is in the
\* result; bug 2, updated on day 1, is not
C16_Witness ==
    /\ cbl.pc = "done"
    /\ cbl.start_date = 0 /\ cbl.end_date = 1
    /\ ~cbl.bugsubscriber
    /\ remote.modified[1] = 0 /\ remote.modified[2] = 1
    /\ ResultLinks = {bug_task(1, "a", "s1")}

\* what get_flags reads of a task of the list: the task's two attributes and
\* the bug's tags and last-updated time
FlagsTask(task) ==
    [subscribed |-> task.subscribed, last_activity_ours |-> task.last_activity_ours,
     date_last_updated |-> remote.modified[task.obj.bug],
     tags |-> {<<t>> : t \in remote.tags[task.obj.bug]}]

\* C18: in every report a task's flags carry the "*" exactly when the team
\* is directly subscribed to the bug, for the structural triage query, the
\* direct one and the tagged and subscribed lists (direct queries) alike.
C18_StarIffSubscribed ==
    cbl.pc = "done"
        => \A task \in cbl.bugs :
              get_flags(FlagsTask(task), FALSE, NoDate, NoDate)[1].char = "*"
                  <=> remote.bugsub[task.obj.bug]

\* C19: the tag selected with --tag is the tag filter of the --show-tagged
\* list and of the tag-expiry report of main: in both, the tags passed to
\* create_bug_list require that tag, and every bug listed carries it.
C19_TagIsRequired ==
    (cbl.pc # "idle" /\ cbl.caller \in {"show_tagged", "expire_tagged"})
        => /\ DEFAULTTAG \in cbl.tags
           /\ cbl.pc = "done"
                 => \A link \in ResultLinks : DEFAULTTAG \in remote.tags[link.bug]

\* the bug numbers of a list
NumbersOf(l) == {l[i].number : i \in 1..Len(l)}

\* C20: with browser opening enabled the first printed task of a report is
\* opened with webbrowser.open and every further printed task with
\* webbrowser.open_new_tab, each call followed by a sleep; with browser
\* opening disabled no call is made.
C20_WindowThenTabs ==
    (pcall.op = "print_bugs" /\ OneReport)
        => LET opened == pcall.out.opened
           IN IF pcall.a.open_in_browser = 0 THEN opened = <<>>
              ELSE /\ Len(opened) = Cardinality(NumbersOf(pcall.sorted_filtered_tasks))
                   /\ \A i \in 1..Len(opened) :
                         /\ opened[i].call = (IF i = 1 THEN "open" ELSE "open_new_tab")
                         /\ opened[i].sleep > 0

\* the file holds an entry for bug n that runs until a day after today
InEffect(pbugs, n) ==
    \E i \in 1..Len(pbugs) : pbugs[i][1] = n /\ pbugs[i][2] > PrintEnv.today

\* C21: load_postponed_bugs takes an entry (bug number, until-date) to be in
\* effect exactly when the until-date is strictly later than today; the
\* line of a task is struck through exactly when its bug number has an
\* entry in effect, and is otherwise logged as composed.
C21_PostponedUntilAfterToday ==
    pcall.op = "print_bug_line"
        => LET logged == pcall.out.log[Len(pcall.out.log)]
           IN /\ \A n \in Numbers :
                    in_list(n, pcall.postponed_bugs) <=> InEffect(pcall.pbugs, n)
              /\ \A i \in 1..Len(pcall.pbugs) :
                    pcall.pbugs[i][2] <= PrintEnv.today
                        => LinesOf(pcall.out.log, "postponed")
                              \cap {k \in 1..Len(pcall.out.log) :
                                       pcall.out.log[k].n = pcall.pbugs[i][2]} = {}
              /\ logged.strike <=> InEffect(pcall.pbugs, pcall.task.number)
              /\ [logged EXCEPT !.strike = FALSE] = pcall.text

\* bug 2 is postponed until tomorrow, bug 10 until today: the line of a task
\* of bug 2 is struck through
C21_Witness ==
    /\ pcall.op = "print_bug_line"
    /\ pcall.pbugs = << <<2, 2>>, <<10, 1>> >>
    /\ pcall.postponed_bugs = <<2>>
    /\ pcall.task.number = 2
    /\ pcall.out.log[Len(pcall.out.log)].strike

C23_OursIffWholeBurstOurs ==
    tcall.op = "last_activity_ours" /\ tcall.out.exc = "none" =>
        LET burst == tcall.out.all_recent_activities
            acts == tcall.out.activity_list
        IN  /\ tcall.activitysubscribers = {} =>
                ~tcall.out.value /\ tcall.out.requested = 0
            /\ tcall.activitysubscribers # {} =>
                /\ burst # <<>> /\ burst[1] = acts[Len(acts)]
                /\ tcall.out.value <=>
                      \A i \in 1..Len(burst) : burst[i][2] \in tcall.activitysubscribers

\* two messages in one burst, the earlier one not ours: the answer is false
C23_Witness ==
    /\ tcall.op = "last_activity_ours" /\ tcall.out.exc = "none"
    /\ tcall.activitysubscribers = {"alice"}
    /\ Len(tcall.out.all_recent_activities) = 2
    /\ tcall.out.all_recent_activities[1][2] = "alice"
    /\ tcall.out.all_recent_activities[2][2] = "mallory"
    /\ ~tcall.out.value

\* the number of activities in the longest run at the end of acts in which
\* every activity is at most one hour before the one following it
RECURSIVE ContiguousRun(_, _)
ContiguousRun(acts, k) ==
    IF k > 1 /\ acts[k][1] - acts[k - 1][1] <= Hour
    THEN 1 + ContiguousRun(acts, k - 1)
    ELSE 1

\* the burst is the last n activities, most recent first
BurstIsLast(burst, acts, n) ==
    /\ Len(burst) = n
    /\ \A j \in 1..n : burst[j] = acts[Len(acts) - j + 1]

\* C24 as stated: the burst is the most recent message and every earlier
\* message that is followed, at most one hour later, by a message of the
\* burst (a contiguous accretion).
C24_ContiguousAccretion ==
    tcall.op = "last_activity_ours" /\ tcall.out.exc = "none"
        /\ tcall.activitysubscribers # {} =>
        LET acts == tcall.out.activity_list
        IN  BurstIsLast(tcall.out.all_recent_activities, acts,
                        ContiguousRun(acts, Len(acts)))

\* C24, amended: the burst is the most recent message and every earlier
\* inspected message created at most one hour before the most recent one (a
\* fixed window anchored at the most recent message), most recent first.
C24_FixedWindow ==
    tcall.op = "last_activity_ours" /\ tcall.out.exc = "none"
        /\ tcall.activitysubscribers # {} =>
        LET acts == tcall.out.activity_list
            burst == tcall.out.all_recent_activities
        IN  /\ Len(burst) \in 1..Len(acts)
            /\ BurstIsLast(burst, acts, Len(burst))
            /\ \A k \in 1..Len(acts) :
                  k > Len(acts) - Len(burst)
                      <=> acts[k][1] >= acts[Len(acts)][1] - Hour

\* three messages, each within the hour of the next, the first more than an
\* hour before the last: the burst is the last two
C24_Witness ==
    /\ tcall.op = "last_activity_ours" /\ tcall.out.exc = "none"
    /\ tcall.activitysubscribers # {}
    /\ Len(tcall.messages) = 3
    /\ tcall.messages[1].date_created = 0
    /\ tcall.messages[2].date_created = Hour - 1
    /\ tcall.messages[3].date_created = 2 * (Hour - 1)
    /\ Len(tcall.out.activity_list) = 3
    /\ Len(tcall.out.all_recent_activities) = 2

\* C25: whichever authors of the inspected messages are gone, and no request
\* failing otherwise, last_activity_ours does not abort: it returns a boolean.
C25_GoneAuthorsNeverAbort ==
    tcall.op = "last_activity_ours"
        /\ (\A i \in 1..Len(tcall.messages) : tcall.messages[i].status \in {"200", "410"})
        => tcall.out.exc = "none" /\ tcall.out.value \in BOOLEAN

(***************************************************************************)
(* Claims about the columns of a line.                                     *)
(***************************************************************************)
\* the tasks of the bug that get_releases reports: Ubuntu tasks of the
\* task's own source package
OwnTasks(self_src, bug_tasks) ==
    SelectSeq(bug_tasks, LAMBDA t : t.project = "ubuntu" /\ t.src = self_src)

\* the first letter of the series name, "d" for the development series,
\* whose task names no series
SeriesLetter(t) == IF t.series = "+source" THEN "d" ELSE first_char(t.series)

\* C26: get_releases emits one character for each Ubuntu task of the bug on
\* the task's own source package: the first letter of the series ("d" for
\* the development series), upper case if that task is closed and lower
\* case otherwise.
C26_UpperCaseIffClosed ==
    tcall.op = "get_releases" =>
        LET own == OwnTasks(tcall.src, tcall.bug_tasks)
            letters == SelectSeq(tcall.out, LAMBDA m : m.char # " ")
        IN  /\ Len(letters) = Len(own)
            /\ \A i \in 1..Len(own) :
                  letters[i].char = IF own[i].status = "Fix Released"
                                  THEN upper(SeriesLetter(own[i]))
                                  ELSE SeriesLetter(own[i])

\* C27: get_flags yields exactly six columns, in the order subscribed "*",
\* our activity "+", age "U" or "O", new "N", needs verification "v",
\* verification done "V"; each column holds its marker when triggered and a
\* space otherwise, and when both age thresholds match the age column holds
\* "U".
C27_SixFixedColumns ==
    tcall.op = "get_flags" =>
        LET f == tcall.out
            t == tcall.task
            young == tcall.AGE # NoDate /\ t.date_last_updated > tcall.AGE
            old == tcall.OLD # NoDate /\ t.date_last_updated < tcall.OLD
        IN  /\ Len(f) = 6
            /\ f[1].char = (IF t.subscribed THEN "*" ELSE " ")
            /\ f[2].char = (IF t.last_activity_ours THEN "+" ELSE " ")
            /\ f[3].char \in {"U", "O", " "}
            /\ f[3].char = "U" <=> young
            /\ f[3].char = "O" <=> old /\ ~young
            /\ f[4].char = (IF tcall.newbug THEN "N" ELSE " ")
            /\ f[5].char = (IF <<"verification-needed-", "jammy">> \in t.tags
                            THEN "v" ELSE " ")
            /\ f[6].char = (IF <<"verification-done-", "jammy">> \in t.tags
                            THEN "V" ELSE " ")

\* a task updated after Task.AGE and before Task.OLD, with every other flag
\* triggered: the age column holds "U"
C27_Witness ==
    /\ tcall.op = "get_flags"
    /\ tcall.AGE # NoDate /\ tcall.task.date_last_updated > tcall.AGE
    /\ tcall.OLD # NoDate /\ tcall.task.date_last_updated < tcall.OLD
    /\ <<tcall.out[1].char, tcall.out[2].char, tcall.out[3].char,
         tcall.out[4].char, tcall.out[5].char, tcall.out[6].char>>
           = <<"*", "+", "U", "N", "v", "V">>

(***************************************************************************)
(* Claims about the triage report of main.                                 *)
(***************************************************************************)
\* C28: the date-bounded triage list of main holds no bug that carries a
\* packaging-task tag, with a direct subscriber and with the structural
\* subscriber alike.
C28_PackagingBugsExcluded ==
    (cbl.pc = "done" /\ cbl.caller = "triage")
        => \A link \in ResultLinks :
              \A tag \in packaging_exclusion :
                  excluded_tag(tag) \notin remote.tags[link.bug]

\* C29: print_bugs called without a postponement file on a list that is not
\* empty after filtering ends with the error of reading the unbound
\* postponed_bugs, before any bug line is logged; this is so for the triage
\* report of main and for the sub-reports of a split.
C29_UnboundPostponedBugs ==
    (pcall.op = "print_bugs" /\ pcall.a.filename_postponed = NoFile
        /\ pcall.sorted_filtered_tasks # <<>>)
        => /\ pcall.out.exc = "UnboundLocalError"
           /\ LinesOf(pcall.out.log, "bug") = {}

\* C30: when the list is empty after the blacklist filter, print_bugs logs
\* no header and no bug line and returns before handle_files: no file is
\* saved and no list of bugs gone is printed, whatever the file compared to
\* holds.
C30_EmptyListReturnsEarly ==
    (pcall.op = "print_bugs" /\ pcall.sorted_filtered_tasks = <<>>)
        => /\ pcall.out.exc = "none"
           /\ \A kind \in {"header", "bug", "also", "saved", "gone_header"} :
                 LinesOf(pcall.out.log, kind) = {}
           /\ LinesOf(pcall.out.log, "found") = {Len(pcall.out.log)}
           /\ pcall.out.log[Len(pcall.out.log)].n = 0
           /\ ~pcall.out.saved.written
           /\ pcall.out.opened = <<>>

\* a list of one blacklisted task, with a file to save to and a file to
\* compare to that lists bugs
C30_Witness ==
    /\ pcall.op = "print_bugs"
    /\ Len(pcall.tasks) = 1 /\ pcall.tasks[1].src \in pcall.a.blacklist
    /\ pcall.sorted_filtered_tasks = <<>>
    /\ pcall.a.filename_save = "save.yaml"
    /\ pcall.a.filename_compare = "compare.yaml"
    /\ PrintEnv.former_bugs # <<>>
    /\ ~pcall.out.saved.written
    /\ LinesOf(pcall.out.log, "found") = {1}

====
